---- MODULE Spec2Model ----
(***************************************************************************)
(* Model of the opencv4nodejs binding wrappers of oxedom/parker:           *)
(*   cc/face/EigenFaceRecognizer.h, cc/face/LBPHFaceRecognizer.h           *)
(*   cc/tracking/Trackers/TrackerMOSSE.h, TrackerGOTURN.h                  *)
(*   cc/objdetect/objdetect.cc, cc/xfeatures2d/xfeatures2d.cc              *)
(*                                                                         *)
(* A wrapper holds a cv::Ptr (a reference-counted shared pointer) to a     *)
(* native algorithm instance.  The native library is the environment: its  *)
(* save writes the instance's model to a path, cv::Algorithm::load<T>      *)
(* throws when the file cannot be opened, returns an empty Ptr when the    *)
(* object it read is empty, and otherwise returns a new instance.          *)
(***************************************************************************)
EXTENDS Integers, Sequences, FiniteSets, TLC

\* ---------------------------------------------------------------- bounds
MaxModel == 1
MaxTarget == 2

\* ------------------------------------------------------------ input sets
Wrappers == {"w1", "w2"}
Workers == {"k1"}
Paths == {"p1", "p2"}
FaceClasses == {"Eigen", "LBPH"}
TrackerClasses == {"MOSSE", "GOTURN"}
Classes == FaceClasses \cup TrackerClasses
Versions == {320, 340}
\* every holder (a wrapper's member, a worker's copy) references at most one
\* instance, and load creates the new instance before it lets go of the old
\* one: this many instances can be live at once.  A released instance's
\* memory returns to the allocator.
PoolSize == Cardinality(Wrappers) + Cardinality(Workers) + 1
Inst == 1..PoolSize
\* 0 is the untrained (empty) model: no labels; 1..MaxModel are trained models
Models == 0..MaxModel
Targets == 1..MaxTarget
ObjdetectTypes_Swapped == <<"HOGDescriptor", "CascadeClassifier", "DetectionROI">>
ObjdetectTypes == <<"CascadeClassifier", "HOGDescriptor", "DetectionROI">>
XFeatures2dTypes == <<"SIFTDetector", "SURFDetector">>

\* the empty cv::Ptr: the value of a default-constructed handle
Null == 0
NoFile == [cls |-> "none", model |-> 0]

VARIABLES
  ver,         \* the native library version the build was compiled against
  wstate,      \* wrapper -> "unborn" | "alive"
  wclass,      \* wrapper -> its class ("none" while unborn)
  handle,      \* wrapper -> the cv::Ptr member: Null or an instance
  istatus,     \* instance -> "free" (not allocated, or released) | "live"
  icls,        \* instance -> native class
  imodel,      \* instance -> the model it holds
  owners,      \* instance -> the holders sharing ownership (the Ptr's refcount)
  files,       \* path -> what is stored there
  held,        \* worker -> <<>> or <<h>>: the Ptr a getter returned to it
  lastOp,      \* the last operation and what its caller observed
  nativeCalls, \* the native calls the last operation made
  have,        \* the native modules the build has (HAVE_OPENCV_...)
  registry,    \* target -> the types registered on it
  initCalls,   \* the sub-Init calls the last module Init made
  lastInit     \* the last module Init: its module, target and failure

wvars == <<ver, wstate, wclass, handle, istatus, icls, imodel,
           owners, files, held, lastOp, nativeCalls>>
rvars == <<have, registry, initCalls, lastInit>>
vars == <<ver, wstate, wclass, handle, istatus, icls, imodel,
          owners, files, held, lastOp, nativeCalls, have, registry, initCalls,
          lastInit>>

\* ------------------------------------------------------- version guards
\* the version guard left out / inverted
GE330_Always == TRUE
GE330_Inverted == ver < 330
\* #if CV_VERSION_GREATER_EQUAL(3, 3, 0) in load
GE330 == ver >= 330
\* #if CV_VERSION_GREATER_EQUAL(3, 4, 0) around class TrackerMOSSE
MOSSEAvailable == ver >= 340
\* #if CV_VERSION_GREATER_EQUAL(3, 2, 0) around class TrackerGOTURN
GOTURNAvailable == ver >= 320
ClassAvailable(c) ==
  CASE c = "MOSSE" -> MOSSEAvailable
    [] c = "GOTURN" -> GOTURNAvailable
    [] OTHER -> TRUE

Running == lastOp.result # "crash"

\* what the caller of an operation observes: the operation, the wrapper it
\* was called on, the worker involved, the path, the result (ok, the native
\* error, or the outcome of undefined behaviour) and the Ptr values the
\* operation dereferenced
Op(o, w, k, p, r, u) ==
  [op |-> o, who |-> w, by |-> k, path |-> p, result |-> r, used |-> u]
NoOp == Op("none", "none", "none", "none", "ok", <<>>)

\* nothing is constructed, stored or registered yet
Start ==
  /\ wstate = [w \in Wrappers |-> "unborn"]
  /\ wclass = [w \in Wrappers |-> "none"]
  /\ handle = [w \in Wrappers |-> Null]
  /\ istatus = [i \in Inst |-> "free"]
  /\ icls = [i \in Inst |-> "none"]
  /\ imodel = [i \in Inst |-> 0]
  /\ owners = [i \in Inst |-> {}]
  /\ files = [p \in Paths |-> NoFile]
  /\ held = [k \in Workers |-> <<>>]
  /\ lastOp = NoOp
  /\ nativeCalls = <<>>
  /\ registry = [t \in Targets |-> {}]
  /\ initCalls = <<>>
  /\ lastInit = [module |-> "none", target |-> 0, failAt |-> 0]

Modules == {"objdetect", "xfeatures2d"}

\* the wrappers' specification: any native version, every module built
Init ==
  /\ ver \in Versions
  /\ have = Modules
  /\ Start

\* the registration specification: any set of native modules built
InitModules ==
  /\ ver \in Versions
  /\ have \in SUBSET Modules
  /\ Start

\* ------------------------------------------------------ cv::Ptr helpers
FreeInst == {i \in Inst : istatus[i] = "free"}
\* the next instance the allocator hands out
Fresh == CHOOSE i \in FreeInst : \A j \in FreeInst : i <= j

\* owners after holder x lets go of the Ptr value h
Unref(o, h, x) == IF h = Null THEN o ELSE [o EXCEPT ![h] = @ \ {x}]
\* owners after holder x takes a copy of the Ptr value h
Ref(o, h, x) == IF h = Null THEN o ELSE [o EXCEPT ![h] = @ \cup {x}]
\* an instance is released when its last owner lets go
Settle(st, o) ==
  [i \in Inst |-> IF st[i] = "live" /\ o[i] = {} THEN "free" ELSE st[i]]
\* a released instance's memory is gone: f keeps only the live entries
Wipe(f, st, none) == [i \in Inst |-> IF st[i] = "free" THEN none ELSE f[i]]

\* ------------------------------------------- the native library (environment)
\* a native call as the library sees it
Call(f, c, h, p, r) == [fn |-> f, cls |-> c, on |-> h, path |-> p, result |-> r]

\* What the native reader makes of the contents at a path, for class c:
\* the file cannot be opened -> the library throws; a file written by the
\* other class does not parse as class c -> the library throws; otherwise
\* the stored model (0: an object with no labels).
NativeRead(c, content) ==
  CASE content = NoFile -> [result |-> "err_open", model |-> 0]
    [] content.cls # c ->
         [result |-> "err_parse", model |-> 0]
    [] OTHER -> [result |-> "ok", model |-> content.model]

\* the native save fails when the path cannot be written (p2 names a file
\* in a directory that does not exist)
Writable == {"p1"}
NativeSave(p) == IF p \in Writable THEN "ok" ELSE "err_write"

\* Dereferencing an empty Ptr is undefined behaviour: the build either
\* crashes (release) or raises the library's debug assertion.
UBOutcomes == {"crash", "err_null"}

UB(o, w, k, p, h) ==
  /\ \E out \in UBOutcomes : lastOp' = Op(o, w, k, p, out, <<h>>)
  /\ nativeCalls' = <<>>
  /\ UNCHANGED <<ver, wstate, wclass, handle, istatus, icls,
                 imodel, owners, files, held>>

\* ----------------------------------------------------------- operations
\* New: the constructor creates the native instance and stores it in the
\* wrapper's handle.
New(w, c) ==
  /\ Running
  /\ wstate[w] = "unborn"
  /\ ClassAvailable(c)
  /\ FreeInst # {}
  /\ wstate' = [wstate EXCEPT ![w] = "alive"]
  /\ wclass' = [wclass EXCEPT ![w] = c]
  /\ handle' = [handle EXCEPT ![w] = Fresh]
  /\ istatus' = [istatus EXCEPT ![Fresh] = "live"]
  /\ icls' = [icls EXCEPT ![Fresh] = c]
  /\ imodel' = [imodel EXCEPT ![Fresh] = 0]
  /\ owners' = [owners EXCEPT ![Fresh] = {w}]
  /\ lastOp' = Op("new", w, "none", "none", "ok", <<>>)
  /\ nativeCalls' = <<>>
  /\ UNCHANGED <<ver, files, held>>

\* save: faceRecognizer->save(path); the caller observes `seen`
SaveForward(w, p, r, seen) ==
  /\ files' = IF r = "ok"
              THEN [files EXCEPT ![p] = [cls |-> icls[handle[w]],
                                         model |-> imodel[handle[w]]]]
              ELSE files
  /\ nativeCalls' = <<Call("save", icls[handle[w]], handle[w], p, r)>>
  /\ lastOp' = Op("save", w, "none", p, seen, <<handle[w]>>)
  /\ UNCHANGED <<ver, wstate, wclass, handle, istatus, icls,
                 imodel, owners, held>>

\* a save that catches the native error and reports success
save_Swallow(w, p) ==
  /\ Running
  /\ wstate[w] = "alive"
  /\ wclass[w] \in FaceClasses
  /\ IF handle[w] = Null
     THEN UB("save", w, "none", p, handle[w])
     ELSE SaveForward(w, p, NativeSave(p), "ok")

save(w, p) ==
  /\ Running
  /\ wstate[w] = "alive"
  /\ wclass[w] \in FaceClasses
  /\ IF handle[w] = Null
     THEN UB("save", w, "none", p, handle[w])
     ELSE SaveForward(w, p, NativeSave(p), NativeSave(p))

\* faceRecognizer = <a Ptr>: the member takes the value h (Null, or a newly
\* created instance of class c holding model m) and lets go of its old value
AssignHandle(w, h, c, m) ==
  /\ handle' = [handle EXCEPT ![w] = h]
  /\ owners' = IF h = Null THEN Unref(owners, handle[w], w)
               ELSE [Unref(owners, handle[w], w) EXCEPT ![h] = {w}]
  /\ istatus' = Settle(IF h = Null THEN istatus
                       ELSE [istatus EXCEPT ![h] = "live"], owners')
  /\ icls' = Wipe(IF h = Null THEN icls ELSE [icls EXCEPT ![h] = c],
                  istatus', "none")
  /\ imodel' = Wipe(IF h = Null THEN imodel ELSE [imodel EXCEPT ![h] = m],
                    istatus', 0)

\* a load that lets go of the old handle before it reads
LoadReplace_ResetFirst(w, p) ==
  LET r == NativeRead(wclass[w], files[p]) IN
  /\ nativeCalls' = <<Call("load", wclass[w], Null, p, r.result)>>
  /\ lastOp' = Op("load", w, "none", p, r.result, <<>>)
  /\ IF r.result # "ok" \/ r.model = 0
     THEN AssignHandle(w, Null, "none", 0)
     ELSE FreeInst # {} /\ AssignHandle(w, Fresh, wclass[w], r.model)
  /\ UNCHANGED <<ver, wstate, wclass, files, held>>

\* load, CV >= 3.3.0:
\*   faceRecognizer = cv::Algorithm::load<T>(path);
\* an exception leaves the member unassigned; an empty result (the object
\* read is empty) or the new instance is assigned to it.
LoadReplace(w, p) ==
  LET r == NativeRead(wclass[w], files[p]) IN
  /\ nativeCalls' = <<Call("load", wclass[w], Null, p, r.result)>>
  /\ lastOp' = Op("load", w, "none", p, r.result, <<>>)
  /\ IF r.result # "ok"
     THEN UNCHANGED <<handle, istatus, icls, imodel, owners>>
     ELSE IF r.model = 0
     THEN AssignHandle(w, Null, "none", 0)
     ELSE FreeInst # {} /\ AssignHandle(w, Fresh, wclass[w], r.model)
  /\ UNCHANGED <<ver, wstate, wclass, files, held>>

\* load, CV < 3.3.0:  faceRecognizer->load(path);  reads into the instance
LoadInPlace(w, p) ==
  LET r == NativeRead(wclass[w], files[p])
      h == handle[w]
  IN
  IF h = Null
  THEN UB("load", w, "none", p, h)
  ELSE
  /\ nativeCalls' = <<Call("load", wclass[w], h, p, r.result)>>
  /\ lastOp' = Op("load", w, "none", p, r.result, <<h>>)
  /\ imodel' = IF r.result = "ok" THEN [imodel EXCEPT ![h] = r.model]
               ELSE imodel
  /\ UNCHANGED <<ver, wstate, wclass, handle, istatus, icls,
                 owners, files, held>>

load(w, p) ==
  /\ Running
  /\ wstate[w] = "alive"
  /\ wclass[w] \in FaceClasses
  /\ IF GE330 THEN LoadReplace(w, p) ELSE LoadInPlace(w, p)

\* getFaceRecognizer / getTracker: return faceRecognizer / tracker by value,
\* a copy of the Ptr that shares ownership of the instance
getFaceRecognizer(w) == handle[w]
getTracker(w) == handle[w]
Getter(w) ==
  IF wclass[w] \in FaceClasses THEN getFaceRecognizer(w) ELSE getTracker(w)
\* a getter that hands out the raw pointer: the holder owns nothing
Returned_Raw(o, h, k) == o
\* the owners once holder k has received the Ptr value h from a getter
Returned(o, h, k) == Ref(o, h, k)

\* a worker takes the wrapper's native object through the getter
WorkerGet(k, w) ==
  /\ Running
  /\ wstate[w] = "alive"
  /\ held[k] = <<>>
  /\ held' = [held EXCEPT ![k] = <<Getter(w)>>]
  /\ owners' = Returned(owners, Getter(w), k)
  /\ lastOp' = Op("get", w, k, "none", "ok", <<>>)
  /\ nativeCalls' = <<>>
  /\ UNCHANGED <<ver, wstate, wclass, handle, istatus, icls,
                 imodel, files>>

\* the worker runs a native operation on the object it holds (train with
\* data that yields model m on a recognizer, update on a tracker); only the
\* library's own state changes, and a tracker holds no persisted model
WorkerUse(k, m) ==
  /\ Running
  /\ held[k] # <<>>
  /\ LET h == held[k][1] IN
     IF h = Null
     THEN UB("use", "none", k, "none", h)
     ELSE IF istatus[h] # "live"
     THEN /\ lastOp' = Op("use", "none", k, "none", "crash", <<h>>)
          /\ nativeCalls' = <<>>
          /\ UNCHANGED <<ver, wstate, wclass, handle, istatus,
                         icls, imodel, owners, files, held>>
     ELSE /\ imodel' = IF icls[h] \in FaceClasses
                       THEN [imodel EXCEPT ![h] = m] ELSE imodel
          /\ lastOp' = Op("use", "none", k, "none", "ok", <<h>>)
          /\ nativeCalls' = <<Call("train", icls[h], h, "none", "ok")>>
          /\ UNCHANGED <<ver, wstate, wclass, handle, istatus,
                         icls, owners, files, held>>

\* the worker finishes and its Ptr copy is destroyed
WorkerDrop(k) ==
  /\ Running
  /\ held[k] # <<>>
  /\ held' = [held EXCEPT ![k] = <<>>]
  /\ owners' = Unref(owners, held[k][1], k)
  /\ istatus' = Settle(istatus, owners')
  /\ icls' = Wipe(icls, istatus', "none")
  /\ imodel' = Wipe(imodel, istatus', 0)
  /\ lastOp' = Op("drop", "none", k, "none", "ok", <<>>)
  /\ nativeCalls' = <<>>
  /\ UNCHANGED <<ver, wstate, wclass, handle, files>>

\* the wrapper is destroyed: its Ptr member is destroyed with it (the slot
\* w may later hold a newly constructed wrapper)
Destroy(w) ==
  /\ Running
  /\ wstate[w] = "alive"
  /\ wstate' = [wstate EXCEPT ![w] = "unborn"]
  /\ wclass' = [wclass EXCEPT ![w] = "none"]
  /\ handle' = [handle EXCEPT ![w] = Null]
  /\ owners' = Unref(owners, handle[w], w)
  /\ istatus' = Settle(istatus, owners')
  /\ icls' = Wipe(icls, istatus', "none")
  /\ imodel' = Wipe(imodel, istatus', 0)
  /\ lastOp' = Op("destroy", w, "none", "none", "ok", <<>>)
  /\ nativeCalls' = <<>>
  /\ UNCHANGED <<ver, files, held>>

\* ---------------------------------------------------- module registration
\* A module Init calls the Init of each of its types in order, with the
\* target it received.  failAt = 0: no sub-Init raises; failAt = n: the
\* n-th sub-Init raises, and the calls after it are not made.
RunInit(module, types, t, failAt) ==
  LET made == IF failAt = 0 THEN Len(types) ELSE failAt
      done == IF failAt = 0 THEN Len(types) ELSE failAt - 1
  IN
  /\ initCalls' = [i \in 1..made |-> [type |-> types[i], target |-> t]]
  /\ registry' = [registry EXCEPT ![t] = @ \cup {types[i] : i \in 1..done}]
  /\ lastInit' = [module |-> module, target |-> t, failAt |-> failAt]
  /\ UNCHANGED have

ObjdetectInit(t) ==
  /\ "objdetect" \in have
  /\ \E f \in 0..Len(ObjdetectTypes) : RunInit("Objdetect", ObjdetectTypes, t, f)

XFeatures2dInit(t) ==
  /\ "xfeatures2d" \in have
  /\ \E f \in 0..Len(XFeatures2dTypes) :
        RunInit("XFeatures2d", XFeatures2dTypes, t, f)

InitNext ==
  \/ \E t \in Targets : ObjdetectInit(t) /\ UNCHANGED wvars
  \/ \E t \in Targets : XFeatures2dInit(t) /\ UNCHANGED wvars

SpecInit == InitModules /\ [][InitNext]_vars

Next ==
  \/ \E w \in Wrappers, c \in Classes : New(w, c) /\ UNCHANGED rvars
  \/ \E w \in Wrappers, p \in Paths : save(w, p) /\ UNCHANGED rvars
  \/ \E w \in Wrappers, p \in Paths : load(w, p) /\ UNCHANGED rvars
  \/ \E k \in Workers, w \in Wrappers : WorkerGet(k, w) /\ UNCHANGED rvars
  \/ \E k \in Workers, m \in Models : WorkerUse(k, m) /\ UNCHANGED rvars
  \/ \E k \in Workers : WorkerDrop(k) /\ UNCHANGED rvars
  \/ \E w \in Wrappers : Destroy(w) /\ UNCHANGED rvars

Spec == Init /\ [][Next]_vars

\* ================================================================ claims
Alive(w) == wstate[w] = "alive"
\* the step just taken was operation o on wrapper w
Did(o, w) == lastOp.op = o /\ lastOp.who = w
ObjdetectExpected == <<"CascadeClassifier", "HOGDescriptor", "DetectionROI">>
XFeatures2dExpected == <<"SIFTDetector", "SURFDetector">>
CallsFor(types, t, n) == [i \in 1..n |-> [type |-> types[i], target |-> t]]

\* C1 (as claimed): a successful save(p) stores the saving wrapper's model at
\* p, and a successful load(p) of a file of the wrapper's class leaves the
\* loading wrapper holding a model equal to the one stored, for any model.
C1_RoundTrip ==
  [][\A w \in Wrappers :
       /\ (Did("save", w)' /\ lastOp'.result = "ok" /\ handle[w] # Null) =>
            files'[lastOp'.path] =
              [cls |-> wclass[w], model |-> imodel[handle[w]]]
       /\ (Did("load", w)' /\ lastOp'.result = "ok") =>
            /\ handle'[w] # Null
            /\ icls'[handle'[w]] = wclass[w]
            /\ imodel'[handle'[w]] = files[lastOp'.path].model]_vars

\* C2 (as claimed): every save(p) makes exactly one native save, with path p,
\* on the handle the wrapper holds, and leaves the handle as it was; every
\* load(p) makes exactly one native load with path p for the wrapper's class.
C2_DirectForward ==
  [][\A w \in Wrappers :
       /\ Did("save", w)' =>
            /\ Len(nativeCalls') = 1
            /\ nativeCalls'[1].fn = "save"
            /\ nativeCalls'[1].path = lastOp'.path
            /\ nativeCalls'[1].on = handle[w]
            /\ handle' = handle
       /\ Did("load", w)' =>
            /\ Len(nativeCalls') = 1
            /\ nativeCalls'[1].fn = "load"
            /\ nativeCalls'[1].path = lastOp'.path
            /\ nativeCalls'[1].cls = wclass[w]]_vars

\* C3 (as claimed): the instance a wrapper's handle references is owned by
\* that wrapper alone.
C3_ExclusiveOwnership ==
  \A w \in Wrappers : handle[w] # Null => owners[handle[w]] = {w}

\* C3 (amended): the instance a wrapper's handle references is live and is
\* owned by that wrapper and, besides it, by exactly the holders of the
\* copies a getter returned; no other wrapper owns it.
C3_SharedOnlyViaGetter ==
  \A w \in Wrappers :
    handle[w] # Null =>
      /\ istatus[handle[w]] = "live"
      /\ w \in owners[handle[w]]
      /\ owners[handle[w]] =
           {w} \cup {k \in Workers : held[k] = <<handle[w]>>}

\* a worker shares ownership of the instance a wrapper's handle references
C3_Witness ==
  \E w \in Wrappers, k \in Workers :
    /\ handle[w] # Null
    /\ held[k] = <<handle[w]>>
    /\ owners[handle[w]] = {w, k}

\* C4 (as claimed): while a wrapper lives its handle refers to one and the
\* same live instance, whatever operation is made, and the instance is
\* released when the wrapper is destroyed.
C4_SameInstanceForLife ==
  [][\A w \in Wrappers :
       /\ (Alive(w) /\ Alive(w)') =>
            /\ handle'[w] = handle[w]
            /\ handle'[w] # Null
            /\ istatus'[handle'[w]] = "live"
       /\ (Alive(w) /\ Did("destroy", w)' /\ handle[w] # Null) =>
            istatus'[handle[w]] = "free"]_vars

\* C4 (amended): the handle is created at construction; while the wrapper
\* lives it changes only by a successful load on a native version >= 3.3.0;
\* an instance is never released while a wrapper's handle refers to it, and
\* it is released when its last holder lets go of it.
C4_ReplacedOnlyByLoad ==
  [][\A w \in Wrappers :
       /\ Did("new", w)' =>
            /\ handle'[w] # Null
            /\ istatus[handle'[w]] = "free"
            /\ istatus'[handle'[w]] = "live"
       /\ (Alive(w) /\ Alive(w)' /\ handle'[w] # handle[w]) =>
            /\ ver >= 330
            /\ Did("load", w)'
            /\ lastOp'.result = "ok"
       /\ handle'[w] # Null => istatus'[handle'[w]] = "live"
       /\ (handle[w] # Null /\ handle'[w] # handle[w]
             /\ owners[handle[w]] = {w}) =>
            istatus'[handle[w]] = "free"]_vars

\* a load has replaced the handle of a living wrapper by a new instance
C4_Witness ==
  \E w \in Wrappers :
    /\ ver >= 330
    /\ Did("load", w) /\ lastOp.result = "ok"
    /\ handle[w] # Null
    /\ nativeCalls # <<>>

\* C5 (as claimed): every Ptr an operation dereferences is non-null.
C5_NonNullBeforeUse ==
  \A i \in 1..Len(lastOp.used) : lastOp.used[i] # Null

\* C6: when the native save or load a wrapper's save or load made has
\* failed, the caller has observed exactly that error, and no further native
\* call was made.
C6_ErrorPassThrough ==
  (lastOp.op \in {"save", "load"}) =>
    \A i \in 1..Len(nativeCalls) :
      nativeCalls[i].result # "ok" =>
        /\ lastOp.result = nativeCalls[i].result
        /\ Len(nativeCalls) = 1

\* a native save has failed
C6_Witness ==
  /\ lastOp.op = "save"
  /\ nativeCalls # <<>>
  /\ nativeCalls[1].result = "err_write"

\* C7: a module Init calls the Init of its types in the fixed order, each
\* once and with the target it received; it registers no other type; a run
\* without failure makes all the calls and registers all the types.
C7_Registration ==
  [][\A t \in Targets :
       LET li == lastInit'
           exp == IF li.module = "Objdetect" THEN ObjdetectExpected
                  ELSE XFeatures2dExpected
       IN
       (li.module # "none" /\ li.target = t) =>
         /\ Len(initCalls') <= Len(exp)
         /\ initCalls' = CallsFor(exp, t, Len(initCalls'))
         /\ li.failAt = 0 =>
              /\ Len(initCalls') = Len(exp)
              /\ {exp[i] : i \in 1..Len(exp)} \subseteq registry'[t]
         /\ registry'[t] \ registry[t] \subseteq {exp[i] : i \in 1..Len(exp)}
         /\ \A u \in Targets \ {t} : registry'[u] = registry[u]]_vars

\* Objdetect::Init has run to its end
C7_Witness ==
  /\ lastInit.module = "Objdetect"
  /\ lastInit.failAt = 0
  /\ Len(initCalls) = 3
  /\ \E t \in Targets : registry[t] = {"CascadeClassifier", "HOGDescriptor",
                                      "DetectionROI"}

\* C8: on a native version >= 3.3.0 a load whose native call raises leaves
\* the wrapper's handle, the instance it refers to and that instance's model
\* as they were.
C8_FailedLoadUnchanged ==
  [][\A w \in Wrappers :
       (ver >= 330 /\ Did("load", w)' /\ lastOp'.result # "ok") =>
         /\ handle'[w] = handle[w]
         /\ owners' = owners
         /\ handle[w] # Null =>
              /\ istatus'[handle[w]] = "live"
              /\ imodel'[handle[w]] = imodel[handle[w]]
              /\ icls'[handle[w]] = icls[handle[w]]]_vars

\* a load has failed on a wrapper that holds a trained model
C8_Witness ==
  \E w \in Wrappers :
    /\ ver >= 330
    /\ Did("load", w) /\ lastOp.result # "ok"
    /\ handle[w] # Null
    /\ imodel[handle[w]] # 0

\* C9: on a native version >= 3.3.0 what a wrapper holds after a successful
\* load(p) is a function of the contents at p and of the wrapper's class
\* alone: no handle when the stored object is empty, and otherwise an
\* instance of its class, owned by it alone, holding the stored model.
C9_LoadIndependentOfPrior ==
  [][\A w \in Wrappers :
       (ver >= 330 /\ Did("load", w)' /\ lastOp'.result = "ok") =>
         IF files[lastOp'.path].model = 0
         THEN handle'[w] = Null
         ELSE /\ handle'[w] # Null
              /\ handle'[w] # handle[w]
              /\ icls'[handle'[w]] = wclass[w]
              /\ imodel'[handle'[w]] = files[lastOp'.path].model
              /\ owners'[handle'[w]] = {w}]_vars

\* two wrappers of one class hold the model stored at p1 in two instances,
\* the last of them just loaded
C9_Witness ==
  \E w \in Wrappers, v \in Wrappers :
    /\ w # v /\ wclass[w] = wclass[v]
    /\ ver >= 330
    /\ Did("load", w) /\ lastOp.result = "ok" /\ lastOp.path = "p1"
    /\ handle[w] # Null /\ handle[v] # Null /\ handle[w] # handle[v]
    /\ files["p1"].model # 0
    /\ imodel[handle[w]] = files["p1"].model
    /\ imodel[handle[v]] = files["p1"].model

\* C10: the instance a worker holds through a getter is live and co-owned by
\* the worker, whatever loads were made since; a getter returns the handle
\* the wrapper holds at the call; a worker's native operation never runs on
\* a released instance.
C10_NoUseAfterRelease ==
  /\ \A k \in Workers :
       (held[k] # <<>> /\ held[k][1] # Null) =>
         /\ istatus[held[k][1]] = "live"
         /\ k \in owners[held[k][1]]
  /\ lastOp.op = "get" => held[lastOp.by] = <<handle[lastOp.who]>>
  /\ (lastOp.op = "use" /\ lastOp.used # <<Null>>) => lastOp.result = "ok"

\* after a load replaced the wrapper's handle, the worker is the only owner
\* of the instance it took before
C10_Witness ==
  \E w \in Wrappers, k \in Workers :
    /\ ver >= 330
    /\ Did("load", w) /\ lastOp.result = "ok"
    /\ held[k] # <<>> /\ held[k][1] # Null
    /\ handle[w] # held[k][1]
    /\ owners[held[k][1]] = {k}
    /\ icls[held[k][1]] = wclass[w]
    /\ \A v \in Wrappers \ {w} : ~Alive(v)

====
